---------------------------- MODULE Spec2Model ----------------------------
(***************************************************************************)
(* State-machine model of the PLM Co-Pilot repository.                     *)
(*                                                                         *)
(*   Spec         src/app.py: the Streamlit script.  Every user            *)
(*                interaction re-runs the script from the top: cached      *)
(*                component initialisation, the "Ask Co-Pilot" gate, the   *)
(*                GraphCypherQAChain invocation (query synthesis, query    *)
(*                execution, answer composition) and the display of the    *)
(*                answer with its metrics.                                 *)
(*   SpecIngest   src/ingest_data.py: Neo4jIngestor.ingest_data, from the  *)
(*                file check through the clear, the constraints and the    *)
(*                four load statements, on a graph store whose nodes and   *)
(*                relationships have identities.                           *)
(*   SpecSession  src/ingest_data.py: Neo4jIngestor.run_query, step by     *)
(*                step: session, run, fetch, exit of the with block.       *)
(***************************************************************************)
EXTENDS Integers, Sequences, FiniteSets, TLC

(***************************************************************************)
(* Bounds of the model.                                                    *)
(***************************************************************************)
MaxRuns == 3
MaxQuestionLen == 2
MaxSchemaVersion == 2
MaxResultRows == 1
MaxRows == 1
MaxRecords == 2
MaxCalls == 4

(***************************************************************************)
(* Program constants of src/app.py, in units of 1e-7 dollars per token.    *)
(***************************************************************************)
INPUT_TOKEN_COST == 2
OUTPUT_TOKEN_COST == 8

None == "None"

\* Outcome of an external call: not made, raised, or returned a value.
NotCalled == [status |-> "none"]
Raised == [status |-> "raised"]
Returned(v) == [status |-> "returned", value |-> v]

VARIABLES
    (* ---- src/app.py ---- *)
    cache,          \* st.cache_resource entry of initialize_components
    store_schema,   \* schema version the graph store has right now
    schema_fetches, \* graph.refresh_schema() calls made by this process
    runs,           \* script runs started so far
    pc,             \* position of the current script run
    user_question,  \* value of the text input in this run
    ask,            \* whether "Ask Co-Pilot" was pressed in this run
    qa_chain,       \* the chain object the run holds (line 86)
    init_attempts,  \* executions of initialize_components' body in this run
    init_failed,    \* whether this run's initialisation raised
    synth_calls,    \* language-model calls for query synthesis in this run
    exec_calls,     \* graph-store queries in this run
    compose_calls,  \* language-model calls for answer composition in this run
    synth_out,      \* outcome of the synthesis call
    exec_out,       \* outcome of the graph-store query
    compose_out,    \* outcome of the composition call
    context,        \* the rows the chain hands to the answer composition
    stages,         \* pipeline stages started in this run, in order
    prompt_tokens,  \* line 133
    shown           \* what the page shows at the end of the run

appVars == <<cache, store_schema, schema_fetches, runs, pc, user_question, ask,
             qa_chain, init_attempts, init_failed, synth_calls, exec_calls,
             compose_calls, synth_out, exec_out, compose_out, context,
             stages, prompt_tokens, shown>>


(***************************************************************************)
(* Texts.  A question is a sequence of characters; an answer is a sequence *)
(* of words.                                                               *)
(***************************************************************************)
Chars == {" ", "a"}

SeqsUpTo(S, n) == UNION {[1..k -> S] : k \in 0..n}

Questions == SeqsUpTo(Chars, MaxQuestionLen)

Answers == {<<>>, <<"w">>, <<"w", "w">>}

\* The texts the synthesis model call may return: no text, or a query.
SynthTexts == {"", "MATCH"}

\* The row sets the graph store may return.
RowSets == {[i \in 1..n |-> "row"] : n \in 0..MaxResultRows}

SchemaVersions == 1..MaxSchemaVersion

\* Python truthiness of a str: the empty string is falsy, anything else truthy.
Truthy(text) == Len(text) > 0

\* Python truthiness of the synthesized query text.
TruthyText(t) == t # ""

\* len(tokenizer.encode(text)): a deterministic count that depends on the
\* text alone.
TokenCount(text) == Len(text)

\* dict.get(key, default)
Get(d, key, default) == IF key \in DOMAIN d THEN d[key] ELSE default

\* An optional value is a set with no element or one.
NothingShown == [error |-> None, answer |-> {}, cypher |-> None,
                 metrics |-> {}]

EndStates == {"stopped", "skipped", "done", "failed"}

(***************************************************************************)
(* Init: the process has started, nothing is cached, no run has happened.  *)
(***************************************************************************)
AppInit ==
    /\ cache = {}
    /\ store_schema \in SchemaVersions
    /\ schema_fetches = 0
    /\ runs = 0
    /\ pc = "idle"
    /\ user_question = <<>>
    /\ ask = FALSE
    /\ qa_chain = {}
    /\ init_attempts = 0
    /\ init_failed = FALSE
    /\ synth_calls = 0
    /\ exec_calls = 0
    /\ compose_calls = 0
    /\ synth_out = NotCalled
    /\ exec_out = NotCalled
    /\ compose_out = NotCalled
    /\ context = <<>>
    /\ stages = <<>>
    /\ prompt_tokens = 0
    /\ shown = NothingShown

\* A user interaction re-runs the script from the top with the widget values
\* of that interaction.
StartRun(q, pressed) ==
    /\ pc \in EndStates \cup {"idle"}
    /\ runs < MaxRuns
    /\ runs' = runs + 1
    /\ pc' = "init"
    /\ user_question' = q
    /\ ask' = pressed
    /\ qa_chain' = {}
    /\ init_attempts' = 0
    /\ init_failed' = FALSE
    /\ synth_calls' = 0
    /\ exec_calls' = 0
    /\ compose_calls' = 0
    /\ synth_out' = NotCalled
    /\ exec_out' = NotCalled
    /\ compose_out' = NotCalled
    /\ context' = <<>>
    /\ stages' = <<>>
    /\ prompt_tokens' = 0
    /\ shown' = NothingShown
    /\ UNCHANGED <<cache, store_schema, schema_fetches>>

\* The graph store's schema changes behind the application's back.
SchemaDrift ==
    /\ \E v \in SchemaVersions :
          /\ v # store_schema
          /\ store_schema' = v
    /\ UNCHANGED <<cache, schema_fetches, runs, pc, user_question, ask,
                   qa_chain, init_attempts, init_failed, synth_calls,
                   exec_calls, compose_calls, synth_out, exec_out,
                   compose_out, context, stages, prompt_tokens, shown>>

\* Line 123: if st.button("Ask Co-Pilot") and user_question:
AskGate(pressed, q) == pressed /\ Truthy(q)

\* Lines 91-133: the script between the initialisation and the chain call.
AfterInit(chain) ==
    /\ qa_chain' = chain
    /\ IF AskGate(ask, user_question)
          THEN /\ pc' = "synth"
               /\ prompt_tokens' = TokenCount(user_question)
          ELSE /\ pc' = "skipped"
               /\ UNCHANGED prompt_tokens

\* Mutant of CacheMiss: initialize_components without @st.cache_resource.
CacheMissAlways == TRUE

\* @st.cache_resource: the body runs only when nothing is cached.
CacheMiss == cache = {}

\* Line 86 with a cached chain: the body of initialize_components is skipped.
InitCached ==
    /\ pc = "init"
    /\ ~CacheMiss
    /\ AfterInit(cache)
    /\ UNCHANGED <<cache, store_schema, schema_fetches, runs, user_question,
                   ask, init_attempts, init_failed, synth_calls, exec_calls,
                   compose_calls, synth_out, exec_out, compose_out, context,
                   stages, shown>>

\* Line 86 with nothing cached, the body completing: the graph is connected,
\* its schema fetched, the chain built on it and stored in the cache.
InitFresh ==
    /\ pc = "init"
    /\ CacheMiss
    /\ init_attempts' = init_attempts + 1
    /\ schema_fetches' = schema_fetches + 1
    /\ cache' = {[schema |-> store_schema]}
    /\ AfterInit(cache')
    /\ UNCHANGED <<store_schema, runs, user_question, ask, init_failed,
                   synth_calls, exec_calls, compose_calls, synth_out,
                   exec_out, compose_out, context, stages, shown>>

\* Mutant of InitErrorHandler: the except block without st.stop().
InitErrorHandlerNoStop ==
    /\ shown' = [shown EXCEPT !.error = "InitError"]
    /\ AfterInit({[schema |-> store_schema]})

\* Lines 87-89: st.error(...) then st.stop().
InitErrorHandler ==
    /\ shown' = [shown EXCEPT !.error = "InitError"]
    /\ pc' = "stopped"
    /\ UNCHANGED <<qa_chain, prompt_tokens>>

\* Line 86 with nothing cached, the body raising at the connection, at the
\* schema fetch or while the chain is built.  Nothing is cached.
InitFailure(at) ==
    /\ pc = "init"
    /\ CacheMiss
    /\ init_attempts' = init_attempts + 1
    /\ init_failed' = TRUE
    /\ schema_fetches' = IF at = "chain" THEN schema_fetches + 1
                                         ELSE schema_fetches
    /\ InitErrorHandler
    /\ UNCHANGED <<cache, store_schema, runs, user_question, ask,
                   synth_calls, exec_calls, compose_calls, synth_out,
                   exec_out, compose_out, context, stages>>

\* Mutant of Propagate: the failed call is swallowed and made again.
PropagateRetry(stage) ==
    /\ pc' = pc
    /\ UNCHANGED shown

\* An exception raised inside qa_chain.invoke is caught nowhere in the script:
\* it leaves the spinner block and ends the run, and the page shows it.
Propagate(stage) ==
    /\ pc' = "failed"
    /\ shown' = [shown EXCEPT !.error = stage]

\* Stage 1 of the chain: the language model is asked for a query.
\* The script does not look at the query before the answer is there (line
\* 144), and an empty text is no error to the chain either
\* (GraphCypherQAChain: "if generated_cypher: context = graph.query(...)
\* else: context = []"): it skips the graph query and goes on to the answer
\* with an empty context.
SynthesizeQuery ==
    /\ pc = "synth"
    /\ synth_calls' = synth_calls + 1
    /\ stages' = Append(stages, "SynthesizingQuery")
    /\ \/ /\ synth_out' = Raised
          /\ Propagate("SynthesizingQuery")
          /\ UNCHANGED context
       \/ \E text \in SynthTexts :
             /\ synth_out' = Returned(text)
             /\ IF TruthyText(text)
                   THEN /\ pc' = "exec"
                        /\ UNCHANGED context
                   ELSE /\ pc' = "compose"
                        /\ context' = <<>>
             /\ UNCHANGED shown
    /\ UNCHANGED <<cache, store_schema, schema_fetches, runs, user_question,
                   ask, qa_chain, init_attempts, init_failed, exec_calls,
                   compose_calls, exec_out, compose_out, prompt_tokens>>

\* Stage 2 of the chain: the synthesized query is run on the graph store.
ExecuteQuery ==
    /\ pc = "exec"
    /\ exec_calls' = exec_calls + 1
    /\ stages' = Append(stages, "Executing")
    /\ \/ /\ exec_out' = Raised
          /\ Propagate("Executing")
          /\ UNCHANGED context
       \/ \E rows \in RowSets :
             /\ exec_out' = Returned(rows)
             /\ context' = rows
             /\ pc' = "compose"
             /\ UNCHANGED shown
    /\ UNCHANGED <<cache, store_schema, schema_fetches, runs, user_question,
                   ask, qa_chain, init_attempts, init_failed, synth_calls,
                   compose_calls, synth_out, compose_out, prompt_tokens>>

\* Lines 143-168: the answer, the query and the metrics are shown.
Display(result) ==
    \* <<"Sorry">> is the fallback text of line 143, <<[x |-> 0]>> the
    \* [{}] of line 144: a step without a "query".
    LET answer == Get(result, "result", <<"Sorry">>)
        cypher_query == Get(Get(result, "intermediate_steps", <<[x |-> 0]>>)[1],
                            "query", "No Cypher query generated.")
        completion_tokens == TokenCount(answer)
        total_tokens == prompt_tokens + completion_tokens
        cost == (prompt_tokens * INPUT_TOKEN_COST)
                  + (completion_tokens * OUTPUT_TOKEN_COST)
    IN  shown' = [error |-> None, answer |-> {answer},
                  cypher |-> cypher_query,
                  metrics |-> {[total |-> total_tokens,
                                prompt |-> prompt_tokens,
                                completion |-> completion_tokens,
                                cost |-> cost]}]

\* Stage 3 of the chain: the language model is asked for the answer; the
\* chain returns and the script displays the result.
ComposeAnswer ==
    /\ pc = "compose"
    /\ compose_calls' = compose_calls + 1
    /\ \/ /\ compose_out' = Raised
          /\ stages' = Append(stages, "ComposingAnswer")
          /\ Propagate("ComposingAnswer")
       \/ \E text \in Answers :
             /\ compose_out' = Returned(text)
             /\ stages' = stages \o <<"ComposingAnswer", "Done">>
             /\ pc' = "done"
             /\ Display([result |-> text,
                         intermediate_steps |->
                             <<[query |-> synth_out.value], [context |-> context]>>])
    /\ UNCHANGED <<cache, store_schema, schema_fetches, runs, user_question,
                   ask, qa_chain, init_attempts, init_failed, synth_calls,
                   exec_calls, synth_out, exec_out, context, prompt_tokens>>



(***************************************************************************)
(* src/ingest_data.py: the batch load.                                     *)
(*                                                                         *)
(* The graph store holds nodes and relationships, each with an identity of *)
(* its own, so that two nodes with the same label and key are two nodes.   *)
(* A node is [id, label, key, props]; props is the tuple of the values the *)
(* load sets on that label (Part: name; Supplier: name, region;            *)
(* ComplianceDoc: status, standard), "null" while unset.                   *)
(***************************************************************************)
VARIABLES
    files_exist,       \* the data files present on disk
    graph,             \* [nodes, rels, next_id]: content of the graph store
    constraints,       \* uniqueness constraints of the graph store
    prior,             \* graph and constraints before ingest_data was called
    ipc,               \* position of ingest_data
    c_idx,             \* constraint queries completed by create_constraints
    queries_issued,    \* run_query calls made by ingest_data
    cleared,           \* whether clear_database has completed
    loads,             \* load steps completed, in order
    parts_rows,        \* rows read from parts.csv
    suppliers_rows,    \* rows read from suppliers.csv
    supply_chain_rows, \* rows read from supply_chain.csv
    compliance_rows    \* rows read from compliance.csv

ingestVars == <<files_exist, graph, constraints, prior, ipc, c_idx,
                queries_issued, cleared, loads, parts_rows, suppliers_rows,
                supply_chain_rows, compliance_rows>>


PARTS_CSV == "parts.csv"
SUPPLIERS_CSV == "suppliers.csv"
SUPPLY_CHAIN_CSV == "supply_chain.csv"
COMPLIANCE_CSV == "compliance.csv"

DataFiles == <<PARTS_CSV, SUPPLIERS_CSV, SUPPLY_CHAIN_CSV, COMPLIANCE_CSV>>

Null == "null"

PartRows == [part_id : {"P1", "P2"}, part_name : {"Frame", "Wheel"},
             product_line : {"X", "Y"}]
SupplierRows == [supplier_id : {"S1", "S2"}, supplier_name : {"Acme"},
                 region : {"DE"}]
SupplyChainRows == [part_id : {"P1", "P2"}, supplier_id : {"S1", "S2"}]
ComplianceRows == [part_id : {"P1", "P2"}, doc_id : {"D1"},
                   status : {"Pass"}, standard : {"RoHS"}]

EmptyGraph == [nodes |-> {}, rels |-> {}, next_id |-> 1]

\* Graphs the store may hold before the load: nothing; an earlier load with
\* a node of a label the load does not know; two Part nodes with one key.
PriorGraphs ==
    { EmptyGraph,
      [nodes |-> {[id |-> 1, label |-> "Part", key |-> "P1",
                   props |-> <<"Old">>],
                  [id |-> 2, label |-> "Supplier", key |-> "S1",
                   props |-> <<"Acme", "DE">>],
                  [id |-> 3, label |-> "Legacy", key |-> "L1",
                   props |-> <<>>]},
       rels |-> {[id |-> 4, type |-> "SUPPLIED_BY", src |-> 1, dst |-> 2]},
       next_id |-> 5],
      [nodes |-> {[id |-> 1, label |-> "Part", key |-> "P1",
                   props |-> <<"Old">>],
                  [id |-> 2, label |-> "Part", key |-> "P1",
                   props |-> <<"Older">>]},
       rels |-> {},
       next_id |-> 3] }

\* The stores ingest_data may find: a graph with its constraints.
PriorStores ==
    {[graph |-> g, constraints |-> IF \E n \in g.nodes : n.label = "Legacy"
                                      THEN {<<"Legacy", "id">>}
                                      ELSE {}] : g \in PriorGraphs}

\* The four statements of create_constraints, as (label, property).
ConstraintQueries == << <<"Part", "part_id">>, <<"Supplier", "supplier_id">>,
                        <<"ProductLine", "name">>,
                        <<"ComplianceDoc", "doc_id">> >>

UnsetProps(label) ==
    CASE label = "Part" -> <<Null>>
      [] label = "Supplier" -> <<Null, Null>>
      [] label = "ComplianceDoc" -> <<Null, Null>>
      [] OTHER -> <<>>

\* MATCH (n:label {key}): the ids of the nodes with that label and key.
MatchNodes(G, label, key) ==
    {n.id : n \in {m \in G.nodes : m.label = label /\ m.key = key}}

\* The node MERGE creates when it matches none.
CreateNode(G, label, key) ==
    [G EXCEPT !.nodes = @ \cup {[id |-> G.next_id, label |-> label,
                                 key |-> key, props |-> UnsetProps(label)]},
              !.next_id = @ + 1]

\* Mutant of MergeNode: CREATE written for MERGE.
MergeNodeAlwaysCreates(G, label, key) == CreateNode(G, label, key)

\* MERGE (n:label {key}): match the nodes there are, create one if none.
MergeNode(G, label, key) ==
    IF MatchNodes(G, label, key) # {} THEN G ELSE CreateNode(G, label, key)

\* SET n.<props> on the nodes with these ids.
SetProps(G, ids, props) ==
    [G EXCEPT !.nodes = {IF n.id \in ids THEN [n EXCEPT !.props = props]
                                         ELSE n : n \in @}]

\* MERGE (a)-[:type]->(b) for one bound pair: create it unless it is there.
MergeRel(G, type, a, b) ==
    IF \E r \in G.rels : r.type = type /\ r.src = a /\ r.dst = b
       THEN G
       ELSE [G EXCEPT !.rels = @ \cup {[id |-> G.next_id, type |-> type,
                                        src |-> a, dst |-> b]},
                      !.next_id = @ + 1]

\* MERGE (a)-[:type]->(b) for every bound pair of the row.
RECURSIVE MergeRels(_, _, _)
MergeRels(G, type, pairs) ==
    IF pairs = {} THEN G
    ELSE LET pr == CHOOSE x \in pairs : TRUE
         IN  MergeRels(MergeRel(G, type, pr[1], pr[2]), type, pairs \ {pr})

\* parts_query for one row (lines 67-71).
PartsRow(G, row) ==
    LET G1 == MergeNode(G, "Part", row.part_id)
        ps == MatchNodes(G1, "Part", row.part_id)
        G2 == SetProps(G1, ps, <<row.part_name>>)
        G3 == MergeNode(G2, "ProductLine", row.product_line)
        pls == MatchNodes(G3, "ProductLine", row.product_line)
    IN  MergeRels(G3, "CONTAINS_PART", pls \X ps)

\* suppliers_query for one row (lines 80-81).
SuppliersRow(G, row) ==
    LET G1 == MergeNode(G, "Supplier", row.supplier_id)
        ss == MatchNodes(G1, "Supplier", row.supplier_id)
    IN  SetProps(G1, ss, <<row.supplier_name, row.region>>)

\* supply_chain_query for one row (lines 90-92).
SupplyChainRow(G, row) ==
    LET ps == MatchNodes(G, "Part", row.part_id)
        ss == MatchNodes(G, "Supplier", row.supplier_id)
    IN  MergeRels(G, "SUPPLIED_BY", ps \X ss)

\* compliance_query for one row (lines 101-104): without a matching Part the
\* row produces nothing.
ComplianceRow(G, row) ==
    LET ps == MatchNodes(G, "Part", row.part_id)
    IN  IF ps = {} THEN G
        ELSE LET G1 == MergeNode(G, "ComplianceDoc", row.doc_id)
                 ds == MatchNodes(G1, "ComplianceDoc", row.doc_id)
                 G2 == SetProps(G1, ds, <<row.status, row.standard>>)
             IN  MergeRels(G2, "HAS_COMPLIANCE", ps \X ds)

\* UNWIND $rows AS row: the statement runs row by row, in order.
RECURSIVE LoadParts(_, _)
LoadParts(G, rows) ==
    IF rows = <<>> THEN G ELSE LoadParts(PartsRow(G, Head(rows)), Tail(rows))

RECURSIVE LoadSuppliers(_, _)
LoadSuppliers(G, rows) ==
    IF rows = <<>> THEN G
    ELSE LoadSuppliers(SuppliersRow(G, Head(rows)), Tail(rows))

RECURSIVE LoadSupplyChain(_, _)
LoadSupplyChain(G, rows) ==
    IF rows = <<>> THEN G
    ELSE LoadSupplyChain(SupplyChainRow(G, Head(rows)), Tail(rows))

RECURSIVE LoadCompliance(_, _)
LoadCompliance(G, rows) ==
    IF rows = <<>> THEN G
    ELSE LoadCompliance(ComplianceRow(G, Head(rows)), Tail(rows))

\* The four load steps of ingest_data (lines 62-106), in order.
LoadAll(G, parts, suppliers, supply_chain, compliance) ==
    LoadCompliance(
        LoadSupplyChain(
            LoadSuppliers(LoadParts(G, parts), suppliers),
            supply_chain),
        compliance)

\* MATCH (n) DETACH DELETE n
ClearGraph(G) == [G EXCEPT !.nodes = {}, !.rels = {}]

IngestInit ==
    /\ files_exist \in SUBSET {DataFiles[i] : i \in 1..4}
    /\ \E p \in PriorStores :
          /\ graph = p.graph
          /\ constraints = p.constraints
    /\ prior = [graph |-> graph, constraints |-> constraints]
    /\ ipc = "check"
    /\ c_idx = 0
    /\ queries_issued = 0
    /\ cleared = FALSE
    /\ loads = <<>>
    /\ parts_rows = <<>>
    /\ suppliers_rows = <<>>
    /\ supply_chain_rows = <<>>
    /\ compliance_rows = <<>>

\* Mutant of AllFilesFound: only the first file is looked for.
OnlyFirstFileFound == DataFiles[1] \in files_exist

\* Lines 54-57: every data file is on disk.
AllFilesFound == \A i \in 1..4 : DataFiles[i] \in files_exist

\* Lines 54-57: ingest_data returns at the first file it does not find.
CheckFiles ==
    /\ ipc = "check"
    /\ ipc' = IF AllFilesFound THEN "clear" ELSE "returned"
    /\ UNCHANGED <<files_exist, graph, constraints, prior, c_idx,
                   queries_issued, cleared, loads, parts_rows,
                   suppliers_rows, supply_chain_rows, compliance_rows>>

\* Line 59: clear_database.
ClearDatabase ==
    /\ ipc = "clear"
    /\ queries_issued' = queries_issued + 1
    /\ graph' = ClearGraph(graph)
    /\ cleared' = TRUE
    /\ ipc' = "constraints"
    /\ UNCHANGED <<files_exist, constraints, prior, c_idx, loads, parts_rows,
                   suppliers_rows, supply_chain_rows, compliance_rows>>

\* Lines 48-49: one statement of create_constraints (IF NOT EXISTS).
CreateConstraint ==
    /\ ipc = "constraints"
    /\ queries_issued' = queries_issued + 1
    /\ c_idx' = c_idx + 1
    /\ constraints' = constraints \cup {ConstraintQueries[c_idx']}
    /\ ipc' = IF c_idx' = Len(ConstraintQueries) THEN "parts" ELSE ipc
    /\ UNCHANGED <<files_exist, graph, prior, cleared, loads, parts_rows,
                   suppliers_rows, supply_chain_rows, compliance_rows>>

\* Lines 64-73: parts.csv is read and loaded.
IngestParts(rows) ==
    /\ ipc = "parts"
    /\ parts_rows' = rows
    /\ queries_issued' = queries_issued + 1
    /\ graph' = LoadParts(graph, rows)
    /\ loads' = Append(loads, "parts")
    /\ ipc' = "suppliers"
    /\ UNCHANGED <<files_exist, constraints, prior, c_idx, cleared,
                   suppliers_rows, supply_chain_rows, compliance_rows>>

\* Lines 77-83: suppliers.csv is read and loaded.
IngestSuppliers(rows) ==
    /\ ipc = "suppliers"
    /\ suppliers_rows' = rows
    /\ queries_issued' = queries_issued + 1
    /\ graph' = LoadSuppliers(graph, rows)
    /\ loads' = Append(loads, "suppliers")
    /\ ipc' = "supply_chain"
    /\ UNCHANGED <<files_exist, constraints, prior, c_idx, cleared,
                   parts_rows, supply_chain_rows, compliance_rows>>

\* Lines 87-94: supply_chain.csv is read and loaded.
IngestSupplyChain(rows) ==
    /\ ipc = "supply_chain"
    /\ supply_chain_rows' = rows
    /\ queries_issued' = queries_issued + 1
    /\ graph' = LoadSupplyChain(graph, rows)
    /\ loads' = Append(loads, "supply_chain")
    /\ ipc' = "compliance"
    /\ UNCHANGED <<files_exist, constraints, prior, c_idx, cleared,
                   parts_rows, suppliers_rows, compliance_rows>>

\* Lines 98-108: compliance.csv is read and loaded; ingest_data is done.
IngestCompliance(rows) ==
    /\ ipc = "compliance"
    /\ compliance_rows' = rows
    /\ queries_issued' = queries_issued + 1
    /\ graph' = LoadCompliance(graph, rows)
    /\ loads' = Append(loads, "compliance")
    /\ ipc' = "done"
    /\ UNCHANGED <<files_exist, constraints, prior, c_idx, cleared,
                   parts_rows, suppliers_rows, supply_chain_rows>>

\* Any run_query call of ingest_data may raise: the statement changes
\* nothing and the exception, caught nowhere, ends ingest_data.
QueryRaises ==
    /\ ipc \in {"clear", "constraints", "parts", "suppliers", "supply_chain",
                "compliance"}
    /\ queries_issued' = queries_issued + 1
    /\ ipc' = "aborted"
    /\ UNCHANGED <<files_exist, graph, constraints, prior, c_idx, cleared,
                   loads, parts_rows, suppliers_rows, supply_chain_rows,
                   compliance_rows>>



(***************************************************************************)
(* src/ingest_data.py: Neo4jIngestor.run_query, step by step.              *)
(*                                                                         *)
(*     with self.driver.session() as session:                              *)
(*         result = session.run(query, params)                             *)
(*         return [record for record in result]                            *)
(***************************************************************************)
VARIABLES
    rq_pc,             \* position of run_query
    rq_calls,          \* run_query calls started
    open_sessions,     \* sessions acquired and not yet closed
    sessions_acquired, \* sessions acquired so far
    server_rows,       \* the records the store has for the current query
    cursor,            \* records of the result not yet fetched
    records,           \* the list run_query is building
    pending,           \* what leaves the with block: a list or an exception
    delivered          \* what the caller got from the last call

sessionVars == <<rq_pc, rq_calls, open_sessions, sessions_acquired,
                 server_rows, cursor, records, pending, delivered>>

vars == <<appVars, ingestVars, sessionVars>>

\* The results the store may have for a query: up to MaxRecords records.
ResultSets == {[i \in 1..n |-> i] : n \in 0..MaxRecords}

SessionInit ==
    /\ rq_pc = "idle"
    /\ rq_calls = 0
    /\ open_sessions = 0
    /\ sessions_acquired = 0
    /\ server_rows = <<>>
    /\ cursor = <<>>
    /\ records = <<>>
    /\ pending = NotCalled
    /\ delivered = NotCalled

\* Line 30: run_query is called and enters the with block: a session of its
\* own is acquired from the driver.
AcquireSession(rows) ==
    /\ rq_pc = "idle"
    /\ rq_calls < MaxCalls
    /\ rq_calls' = rq_calls + 1
    /\ open_sessions' = open_sessions + 1
    /\ sessions_acquired' = sessions_acquired + 1
    /\ server_rows' = rows
    /\ cursor' = <<>>
    /\ records' = <<>>
    /\ pending' = NotCalled
    /\ delivered' = NotCalled
    /\ rq_pc' = "opened"

\* Line 31: session.run returns a result whose records are still to be
\* fetched, or raises.
SessionRun ==
    /\ rq_pc = "opened"
    /\ \/ /\ cursor' = server_rows
          /\ rq_pc' = "streaming"
          /\ UNCHANGED pending
       \/ /\ pending' = Raised
          /\ rq_pc' = "leaving"
          /\ UNCHANGED cursor
    /\ UNCHANGED <<rq_calls, open_sessions, sessions_acquired, server_rows,
                   records, delivered>>

\* Line 32: the comprehension fetches the next record, or the fetch raises.
FetchRecord ==
    /\ rq_pc = "streaming"
    /\ cursor # <<>>
    /\ \/ /\ records' = Append(records, Head(cursor))
          /\ cursor' = Tail(cursor)
          /\ UNCHANGED <<pending, rq_pc>>
       \/ /\ pending' = Raised
          /\ rq_pc' = "leaving"
          /\ UNCHANGED <<records, cursor>>
    /\ UNCHANGED <<rq_calls, open_sessions, sessions_acquired, server_rows,
                   delivered>>

\* Mutant of ListComplete: the result is returned as it is, unread.
ListCompleteAtOnce == TRUE

\* Line 32: the comprehension ends when the result has no more records.
ListComplete == cursor = <<>>

\* Line 32: return of the finished list.
ReturnList ==
    /\ rq_pc = "streaming"
    /\ ListComplete
    /\ pending' = Returned(records)
    /\ rq_pc' = "leaving"
    /\ UNCHANGED <<rq_calls, open_sessions, sessions_acquired, server_rows,
                   cursor, records, delivered>>

\* Line 30: leaving the with block closes the session, whether a value or
\* an exception leaves it; the records not fetched are gone with it.
ExitSession ==
    /\ rq_pc = "leaving"
    /\ open_sessions' = open_sessions - 1
    /\ cursor' = <<>>
    /\ rq_pc' = "exited"
    /\ UNCHANGED <<rq_calls, sessions_acquired, server_rows, records,
                   pending, delivered>>

\* Control is back in the caller, with the list or with the exception.
ReturnToCaller ==
    /\ rq_pc = "exited"
    /\ delivered' = pending
    /\ rq_pc' = "idle"
    /\ UNCHANGED <<rq_calls, open_sessions, sessions_acquired, server_rows,
                   cursor, records, pending>>

(***************************************************************************)
(* Specifications.  Each one runs one program and holds the others still.  *)
(***************************************************************************)
AppStill == AppInit /\ store_schema = 1

IngestStill == IngestInit /\ files_exist = {} /\ graph = EmptyGraph
                          /\ constraints = {}

Init == AppInit /\ IngestStill /\ SessionInit

Next ==
    \/ (\E q \in Questions, pressed \in BOOLEAN : StartRun(q, pressed))
          /\ UNCHANGED <<ingestVars, sessionVars>>
    \/ SchemaDrift /\ UNCHANGED <<ingestVars, sessionVars>>
    \/ InitCached /\ UNCHANGED <<ingestVars, sessionVars>>
    \/ InitFresh /\ UNCHANGED <<ingestVars, sessionVars>>
    \/ (\E at \in {"connect", "schema", "chain"} : InitFailure(at))
          /\ UNCHANGED <<ingestVars, sessionVars>>
    \/ SynthesizeQuery /\ UNCHANGED <<ingestVars, sessionVars>>
    \/ ExecuteQuery /\ UNCHANGED <<ingestVars, sessionVars>>
    \/ ComposeAnswer /\ UNCHANGED <<ingestVars, sessionVars>>

Spec == Init /\ [][Next]_vars

InitIngest == IngestInit /\ AppStill /\ SessionInit

NextIngest ==
    \/ CheckFiles /\ UNCHANGED <<appVars, sessionVars>>
    \/ ClearDatabase /\ UNCHANGED <<appVars, sessionVars>>
    \/ CreateConstraint /\ UNCHANGED <<appVars, sessionVars>>
    \/ (\E rows \in SeqsUpTo(PartRows, MaxRows) : IngestParts(rows))
          /\ UNCHANGED <<appVars, sessionVars>>
    \/ (\E rows \in SeqsUpTo(SupplierRows, MaxRows) : IngestSuppliers(rows))
          /\ UNCHANGED <<appVars, sessionVars>>
    \/ (\E rows \in SeqsUpTo(SupplyChainRows, MaxRows) :
            IngestSupplyChain(rows))
          /\ UNCHANGED <<appVars, sessionVars>>
    \/ (\E rows \in SeqsUpTo(ComplianceRows, MaxRows) :
            IngestCompliance(rows))
          /\ UNCHANGED <<appVars, sessionVars>>
    \/ QueryRaises /\ UNCHANGED <<appVars, sessionVars>>

SpecIngest == InitIngest /\ [][NextIngest]_vars

InitSession == SessionInit /\ AppStill /\ IngestStill

NextSession ==
    \/ (\E rows \in ResultSets : AcquireSession(rows))
          /\ UNCHANGED <<appVars, ingestVars>>
    \/ SessionRun /\ UNCHANGED <<appVars, ingestVars>>
    \/ FetchRecord /\ UNCHANGED <<appVars, ingestVars>>
    \/ ReturnList /\ UNCHANGED <<appVars, ingestVars>>
    \/ ExitSession /\ UNCHANGED <<appVars, ingestVars>>
    \/ ReturnToCaller /\ UNCHANGED <<appVars, ingestVars>>

SpecSession == InitSession /\ [][NextSession]_vars

(***************************************************************************)
(* Properties of src/app.py, checked under Spec.                           *)
(***************************************************************************)
IsPrefix(s, t) == /\ Len(s) <= Len(t)
                  /\ \A i \in 1..Len(s) : s[i] = t[i]

PipelineOrder == <<"SynthesizingQuery", "Executing", "ComposingAnswer", "Done">>

\* A stage failed: its external call raised, or the synthesis produced no
\* query text.
SynthesisFailed == synth_out = Raised \/ synth_out = Returned("")
ExecutionFailed == exec_out = Raised
CompositionFailed == compose_out = Raised
StageFailed == SynthesisFailed \/ ExecutionFailed \/ CompositionFailed

\* A question that is empty or holds nothing but whitespace.
IsBlank(q) == \A i \in 1..Len(q) : q[i] = " "

\* C1: the stages of a run start in the strict order SynthesizingQuery,
\* Executing, ComposingAnswer, Done, and as soon as a stage has failed the run
\* is in the terminal Failed state, where no later stage has been started.
C1_StrictOrderFailureTerminal ==
    /\ IsPrefix(stages, PipelineOrder)
    /\ StageFailed => pc = "failed"
    /\ SynthesisFailed => exec_calls = 0 /\ compose_calls = 0
    /\ ExecutionFailed => compose_calls = 0

\* C2: a run whose question is empty or whitespace-only makes no
\* language-model call and no graph-store query.
C2_BlankQuestionRejected ==
    (pc # "idle" /\ IsBlank(user_question))
        => (synth_calls = 0 /\ exec_calls = 0 /\ compose_calls = 0)

\* C3: a run in which a stage failed ends with one failure message that names
\* the reason and with no answer, no token counts and no cost on the page.
C3_FailureShowsOnlyTheError ==
    (pc \in EndStates /\ StageFailed)
        => (/\ shown.error \in {"SynthesizingQuery", "Executing",
                                "ComposingAnswer"}
            /\ shown.answer = {}
            /\ shown.metrics = {})

\* C4: when the synthesis returns an empty string the run is in the Failed
\* state and the graph-store query has not been made.
C4_EmptySynthesisFails ==
    synth_out = Returned("") => (pc = "failed" /\ exec_calls = 0)

\* C5: once a chain is cached, no step replaces or changes the cached chain
\* or its schema snapshot and no step fetches the schema again; every run
\* that holds a chain holds the cached one.
C5_SnapshotCachedForLife ==
    /\ [][cache # {} => (cache' = cache /\ schema_fetches' = schema_fetches)]_vars
    /\ [](qa_chain # {} => qa_chain = cache)

\* C5 witness: a later run completed on the cached chain after the store's
\* schema had moved away from the snapshot.
C5_Witness ==
    /\ runs >= 2
    /\ pc = "done"
    /\ schema_fetches = 1
    /\ \E c \in qa_chain : c.schema # store_schema

\* C6: a run whose initialisation raised shows the initialisation error, has
\* run the initialisation once, is stopped, and passes no question to the
\* chain.
C6_InitFailureStopsRun ==
    /\ init_attempts <= 1
    /\ init_failed =>
          /\ init_attempts = 1
          /\ pc = "stopped"
          /\ shown.error = "InitError"
          /\ qa_chain = {}
          /\ synth_calls = 0 /\ exec_calls = 0 /\ compose_calls = 0

\* C6 witness: the initialisation failed in a run that asked a question.
C6_Witness ==
    /\ init_failed
    /\ pc = "stopped"
    /\ AskGate(ask, user_question)

\* C7: within a run every external call of the chain is made at most once,
\* a call that was made has exactly one attempt whether it returned or
\* raised, and a call that raised has ended the run.
C7_NoRetry ==
    /\ synth_calls = (IF synth_out = NotCalled THEN 0 ELSE 1)
    /\ exec_calls = (IF exec_out = NotCalled THEN 0 ELSE 1)
    /\ compose_calls = (IF compose_out = NotCalled THEN 0 ELSE 1)
    /\ (synth_out = Raised \/ exec_out = Raised \/ compose_out = Raised)
          => pc = "failed"

\* C7 witness: the graph-store query raised after a successful synthesis.
C7_Witness ==
    /\ synth_out = Returned("MATCH")
    /\ exec_out = Raised
    /\ synth_calls = 1 /\ exec_calls = 1 /\ compose_calls = 0

(***************************************************************************)
(* Properties of src/ingest_data.py, checked under SpecIngest.             *)
(***************************************************************************)
\* The four load steps applied once more, with the rows ingest_data read.
Reload(G) ==
    LoadAll(G, parts_rows, suppliers_rows, supply_chain_rows, compliance_rows)

\* Loading G again leaves its nodes and relationships, and so their counts,
\* as they are.
Unchanged(G) ==
    LET again == Reload(G)
    IN  /\ again.nodes = G.nodes
        /\ again.rels = G.rels
        /\ Cardinality(again.nodes) = Cardinality(G.nodes)
        /\ Cardinality(again.rels) = Cardinality(G.rels)

\* C8: once ingest_data has loaded its four files, applying the four load
\* steps again with the same rows and without the clear step leaves the graph
\* as it is: no node and no relationship is added or changed.  The same holds
\* when the first application starts from a graph that was not cleared:
\* loading twice gives the nodes, relationships and counts of loading once.
C8_IngestIdempotent ==
    ipc = "done" =>
        /\ Unchanged(graph)
        /\ \A P \in PriorGraphs \ {EmptyGraph} : Unchanged(Reload(P))

\* C8 witness: the load is done and has put nodes of two labels and a
\* relationship into the graph.
C8_Witness ==
    /\ ipc = "done"
    /\ \E n \in graph.nodes : n.label = "Part"
    /\ \E n \in graph.nodes : n.label = "ComplianceDoc"
    /\ \E r \in graph.rels : r.type = "SUPPLIED_BY"

SomeFileMissing == \E i \in 1..4 : DataFiles[i] \notin files_exist

PriorNodeIds == {n.id : n \in prior.graph.nodes}
PriorRelIds == {r.id : r \in prior.graph.rels}

\* C10: when a data file is missing ingest_data returns with no query issued
\* and the graph and the constraints as they were; a load step has run only
\* after the clear step has completed, all four files being there; and from
\* the clear on no node and no relationship of the prior graph is left.
C10_ClearOnlyAfterFilesFound ==
    /\ SomeFileMissing =>
          /\ ipc \in {"check", "returned"}
          /\ queries_issued = 0
          /\ graph = prior.graph
          /\ constraints = prior.constraints
    /\ ipc = "returned" => SomeFileMissing
    /\ (loads # <<>> \/ c_idx > 0) => (cleared /\ ~SomeFileMissing)
    /\ cleared =>
          /\ {n.id : n \in graph.nodes} \cap PriorNodeIds = {}
          /\ {r.id : r \in graph.rels} \cap PriorRelIds = {}
    /\ ipc = "done" =>
          /\ cleared
          /\ loads = <<"parts", "suppliers", "supply_chain", "compliance">>

\* C10 witness: a file is missing, ingest_data has returned, and the prior
\* graph with its constraint is still there.
C10_Witness ==
    /\ ipc = "returned"
    /\ PARTS_CSV \in files_exist
    /\ prior.graph.nodes # {}
    /\ prior.constraints # {}
    /\ graph = prior.graph

\* The other case of C10: the load is done on a store that held a graph.
C10_ClearedCase ==
    /\ ipc = "done"
    /\ prior.graph.nodes # {}
    /\ graph.nodes # {}

(***************************************************************************)
(* Properties of Neo4jIngestor.run_query, checked under SpecSession.       *)
(***************************************************************************)
\* C9: every run_query call has acquired a session of its own; no session is
\* open while control is with the caller, after a returned list and after an
\* exception alike; a list leaves run_query only with every record of the
\* result in it, and it was complete while the session was still open; an
\* exception raised by the query reaches the caller as an exception.
C9_SessionScoped ==
    /\ sessions_acquired = rq_calls
    /\ open_sessions = (IF rq_pc \in {"opened", "streaming", "leaving"}
                           THEN 1 ELSE 0)
    /\ rq_pc = "idle" => open_sessions = 0
    /\ (rq_pc = "leaving" /\ pending # Raised) =>
          (open_sessions = 1 /\ pending = Returned(server_rows))
    /\ (rq_pc = "exited" /\ pending # Raised) =>
          pending = Returned(server_rows)
    /\ (rq_pc = "idle" /\ rq_calls > 0) =>
          /\ delivered = pending
          /\ delivered \in {Raised, Returned(server_rows)}

\* C9 witness: a query with records failed and its exception has reached the
\* caller, no session being open.
C9_Witness ==
    /\ rq_pc = "idle"
    /\ delivered = Raised
    /\ server_rows # <<>>
    /\ records # <<>>
    /\ open_sessions = 0

\* The other case of C9: a list of several records has reached the caller.
C9_ReturnedCase ==
    /\ rq_pc = "idle"
    /\ Len(server_rows) > 1
    /\ delivered = Returned(server_rows)
    /\ open_sessions = 0

=============================================================================
